---- MODULE Spec2Model ----
(***************************************************************************)
(* BabyTrack: the analysis endpoints (app/api/routes/analysis.py), the     *)
(* analysis orchestrator (app/rag/analyzer.py), the retriever and index    *)
(* builder (app/rag/retriever.py, app/rag/indexer.py) and the lazy index   *)
(* dependency (app/api/dependencies.py).                                   *)
(*                                                                         *)
(* Time is counted in minutes since 00:00 of day 0; a date is a day        *)
(* number.  A Python float that holds a quotient is kept as the pair       *)
(* <<numerator, denominator>>.                                             *)
(***************************************************************************)
EXTENDS Integers, Sequences, FiniteSets, TLC

VARIABLES
    clock,        \* datetime.now(), minutes
    babies,       \* table babies: set of [id, birth_date]
    feedings,     \* table feedings: set of [baby_id, fed_at, quantity_ml]
    reports,      \* table analysis_reports: row id at position id, NoRow once deleted
    weight_entries,     \* table weight_entries: set of [baby_id]
    diapers,            \* table diapers: set of [baby_id]
    chat_conversations, \* table chat_conversations: set of [baby_id]
    baby_seq,     \* the last id AUTOINCREMENT gave to a baby
    last,         \* what the last HTTP request did and answered
    docs_present, \* DOCS_DIR holds at least one supported document
    index_dir_exists, \* INDEX_DIR exists on disk
    index_files,  \* INDEX_DIR/docstore.json exists (a persisted index)
    app_state,    \* request.app.state: rag_index and _rag_index_load_attempted
    calls,        \* per thread: the call it runs and where it stands
    analysis,     \* what the last finished analyze_feedings call did
    prompt_call,  \* the query and the prompt of the call being assembled
    build_failed  \* some build_index call has already raised

vars == <<clock, babies, feedings, reports, weight_entries, diapers,
          chat_conversations, baby_seq, last, docs_present,
          index_dir_exists, index_files, app_state, calls, analysis,
          prompt_call, build_failed>>

dbVars == <<clock, babies, feedings, weight_entries, diapers,
            chat_conversations, baby_seq>>
ragVars == <<docs_present, index_dir_exists, index_files, app_state, calls,
             analysis, prompt_call, build_failed>>

----------------------------------------------------------------------------
(* Bounds and input sets                                                   *)

MaxFeedings == 2
MaxBabies == 2
MaxReports == 2
MaxThreads == 2
MaxNodes == 2
MaxCalls == 2

\* Optional[datetime] = None
NoTime == -1
\* a str is the sequence of its characters; Optional[str] = None
NoQuestion == <<"<None>">>

\* day 1 is "today"; 2580 is today 19:00
Nows == {2585, 2609, 2610, 2611}
StartOpts == {NoTime, 1440, 2000, 2580, 2600}
EndOpts == {NoTime, 1440, 2580, 2736}
FeedTimes == {1000, 1440, 2000}
Quantities == {70, 80}
Ages == {7, 10, 29, 30, 45, 59, 60, 90, 119, 120, 200}
BabyIds == {1, 2}
\* "Is she eating enough today?"
ConvQuestion ==
    <<"I", "s", " ", "s", "h", "e", " ", "e", "a", "t", "i", "n", "g", " ", "e", "n", "o", "u", "g", "h", " ", "t", "o", "d", "a", "y", "?">>
\* "give me a detailed report"
ReportQuestion ==
    <<"g", "i", "v", "e", " ", "m", "e", " ", "a", " ", "d", "e", "t", "a", "i", "l", "e", "d", " ", "r", "e", "p", "o", "r", "t">>
Questions == {NoQuestion, <<>>, ConvQuestion, ReportQuestion}

\* questions put to analyze_feedings directly
SummaryQuestion ==
    <<"G", "i", "v", "e", " ", "m", "e", " ", "a", " ", "s", "u", "m", "m", "a", "r", "y">>
ShoutQuestion ==
    <<" ", " ", "A", "N", "A", "L", "Y", "Z", "E", " ", "t", "h", "i", "s", " ">>
AnalyzerQuestions == Questions \cup {SummaryQuestion, ShoutQuestion}

Threads == 1..MaxThreads

----------------------------------------------------------------------------
(* Dates and durations                                                     *)

\* datetime.date()
DateOf(t) == t \div 1440

\* datetime(now.year, now.month, now.day, 0, 0, 0)
Midnight(t) == DateOf(t) * 1440

\* timedelta.total_seconds()
TotalSeconds(d) == d * 60

\* timedelta(hours=h) for a float h = <<n, d>>, at the clock's resolution
TimedeltaHours(h) == (h[1] * 60) \div h[2]

Max(a, b) == IF a >= b THEN a ELSE b

RECURSIVE SumQuantity(_)
SumQuantity(fs) ==
    IF fs = {} THEN 0
    ELSE LET f == CHOOSE g \in fs : TRUE
         IN f.quantity_ml + SumQuantity(fs \ {f})

----------------------------------------------------------------------------
(* app/rag/analyzer.py: the age-based rate                                 *)

\* the first step closed on the right
_expected_feedings_per_hour_le(age_days) ==
    IF age_days <= 30 THEN <<9, 24>>
    ELSE IF age_days < 60 THEN <<15, 48>>
    ELSE IF age_days < 120 THEN <<6, 24>>
    ELSE <<5, 24>>

_expected_feedings_per_hour(age_days) ==
    IF age_days < 30 THEN <<9, 24>>
    ELSE IF age_days < 60 THEN <<15, 48>>
    ELSE IF age_days < 120 THEN <<6, 24>>
    ELSE <<5, 24>>

\* a float n/d is exact iff d, in lowest terms, is a power of two; the three
\* denominators that occur reduce to 8, 16, 4 and 24
IsExactFloat(r) == r \in {<<9, 24>>, <<15, 48>>, <<6, 24>>}

\* math.ceil in place of round
PyRound_ceil(rate, hours) ==
    LET n == rate[1] * hours[1]
        d == rate[2] * hours[2]
    IN  {IF n % d = 0 THEN n \div d ELSE n \div d + 1}

\* round(rate * hours) of Python: nearest integer, and on a tie the even
\* neighbour when the product is exact; rate 5/24 is not a binary fraction,
\* and the float product at a tie lands on either side of k + 0.5
PyRound(rate, hours) ==
    LET n == rate[1] * hours[1]
        d == rate[2] * hours[2]
        q == n \div d
        r == n % d
    IN  IF 2 * r < d THEN {q}
        ELSE IF 2 * r > d THEN {q + 1}
        ELSE IF IsExactFloat(rate)
             THEN {IF q % 2 = 0 THEN q ELSE q + 1}
             ELSE {q, q + 1}

----------------------------------------------------------------------------
(* Strings: str.lower, str.strip, the operator `in`                        *)

UpperCase == <<"A", "B", "C", "D", "E", "F", "G", "H", "I", "J", "K", "L", "M", "N", "O", "P", "Q", "R", "S", "T", "U", "V", "W", "X", "Y", "Z">>
LowerCase == <<"a", "b", "c", "d", "e", "f", "g", "h", "i", "j", "k", "l", "m", "n", "o", "p", "q", "r", "s", "t", "u", "v", "w", "x", "y", "z">>

LowerChar(c) ==
    IF \E i \in 1..Len(UpperCase) : UpperCase[i] = c
    THEN LowerCase[CHOOSE i \in 1..Len(UpperCase) : UpperCase[i] = c]
    ELSE c

\* str.lower()
Lower(s) == [i \in 1..Len(s) |-> LowerChar(s[i])]

\* str.strip(): leading and trailing blanks removed
RECURSIVE Strip(_)
Strip(s) ==
    IF s = <<>> THEN s
    ELSE IF Head(s) = " " THEN Strip(Tail(s))
    ELSE IF s[Len(s)] = " " THEN Strip(SubSeq(s, 1, Len(s) - 1))
    ELSE s

\* kw in q
Contains(q, kw) ==
    \E i \in 1..(Len(q) - Len(kw) + 1) : SubSeq(q, i, i + Len(kw) - 1) = kw

\* not question
Falsy(question) == question = NoQuestion \/ question = <<>>

\* app/rag/analyzer.py: _REPORT_KEYWORDS
_REPORT_KEYWORDS ==
    {<<"a", "n", "a", "l", "y", "z", "e">>,
     <<"a", "n", "a", "l", "y", "s", "e">>,
     <<"a", "n", "a", "l", "y", "s", "i", "s">>,
     <<"r", "e", "p", "o", "r", "t">>,
     <<"b", "i", "l", "a", "n">>,
     <<"f", "u", "l", "l", " ", "r", "e", "p", "o", "r", "t">>,
     <<"d", "e", "t", "a", "i", "l", "e", "d">>,
     <<"r", "a", "p", "p", "o", "r", "t">>,
     <<"c", "o", "m", "p", "l", "e", "t">>}

\* the keyword test on the question as typed
_is_report_request_cased(question) ==
    IF Falsy(question) THEN TRUE
    ELSE LET q == Strip(question)
         IN  \E kw \in _REPORT_KEYWORDS : Contains(q, kw)

\* app/rag/analyzer.py: _is_report_request
_is_report_request(question) ==
    IF Falsy(question) THEN TRUE
    ELSE LET q == Strip(Lower(question))
         IN  \E kw \in _REPORT_KEYWORDS : Contains(q, kw)

\* app/api/routes/analysis.py: report_kw of _is_report_request_label
report_kw ==
    {<<"a", "n", "a", "l", "y", "z", "e">>,
     <<"a", "n", "a", "l", "y", "s", "e">>,
     <<"a", "n", "a", "l", "y", "s", "i", "s">>,
     <<"r", "e", "p", "o", "r", "t">>,
     <<"b", "i", "l", "a", "n">>,
     <<"d", "e", "t", "a", "i", "l", "e", "d">>,
     <<"r", "a", "p", "p", "o", "r", "t">>,
     <<"c", "o", "m", "p", "l", "e", "t">>}

_is_report_request_label(question) ==
    IF Falsy(question) THEN TRUE
    ELSE \E kw \in report_kw : Contains(Strip(Lower(question)), kw)

----------------------------------------------------------------------------
(* app/services: the event store                                           *)

get_baby(baby_id) == {b \in babies : b.id = baby_id}

get_feedings_by_datetime_range(baby_id, start, end) ==
    {f \in feedings : f.baby_id = baby_id /\ f.fed_at >= start /\ f.fed_at <= end}

----------------------------------------------------------------------------
(* app/api/routes/analysis.py                                              *)

_PARTIAL_THRESHOLD_MINUTES == 30

\* the boundary counted as ongoing
IsPartial_inclusive(now, end_dt) ==
    TotalSeconds(now - end_dt) <= _PARTIAL_THRESHOLD_MINUTES * 60

\* is_partial = (now - end_dt).total_seconds() < _PARTIAL_THRESHOLD_MINUTES * 60
IsPartial(now, end_dt) ==
    TotalSeconds(now - end_dt) < _PARTIAL_THRESHOLD_MINUTES * 60

\* an empty window (end = start) let through
InvalidWindow_strict(start_dt, end_dt) == end_dt < start_dt

\* if end_dt <= start_dt: raise HTTPException(status_code=400, ...)
InvalidWindow(start_dt, end_dt) == end_dt <= start_dt

\* hours_elapsed = (end_dt - start_dt).total_seconds() / 3600
HoursElapsed(start_dt, end_dt) == <<TotalSeconds(end_dt - start_dt), 3600>>

\* the same window one day earlier
BaselineStart_previous_day(start_dt, hours_elapsed) == start_dt - 1440

BaselineStart(start_dt, hours_elapsed) == start_dt - TimedeltaHours(hours_elapsed)

BaselineEnd(start_dt) == start_dt

\* the parameters of analyze_feedings and the keywords the two routes pass
AnalyzeParams == {"baby", "feedings", "ctx", "index", "index_dir", "weights", "question"}
AnalyzeRequired == {"baby", "feedings", "ctx"}
GetKwargs == {"baby", "feedings", "ctx", "index", "weights", "diapers", "question"}
ChatKwargs == GetKwargs \cup {"chat_history"}

\* Python binds the keywords before the body runs: an unexpected keyword or a
\* missing required parameter is a TypeError
BindsOk(kwargs) == kwargs \subseteq AnalyzeParams /\ AnalyzeRequired \subseteq kwargs

NoCtx ==
    [start |-> NoTime, end |-> NoTime, is_partial |-> FALSE,
     hours_elapsed |-> <<0, 3600>>, feedings_expected |-> 0,
     baseline_count |-> 0, baseline_volume_ml |-> 0,
     baseline_start |-> NoTime, baseline_end |-> NoTime]

\* the request as it stands before the handler has done anything
NewRequest(kind, baby_id, start, end, question, now) ==
    [kind |-> kind, baby_id |-> baby_id, start |-> start, end |-> end,
     question |-> question, now |-> now, age_days |-> 0,
     status |-> 0, detail |-> "",
     queries |-> <<>>, analyzer_calls |-> 0, retrievals |-> 0,
     llm_calls |-> 0, saves |-> 0,
     has_ctx |-> FALSE, ctx |-> NoCtx, window |-> {}, baseline |-> {},
     is_partial |-> FALSE, report_id |-> 0]

Reject(req, status, detail) == [req EXCEPT !.status = status, !.detail = detail]

\* an empty string taken for a question
NoData_absent(window, question) == window = {} /\ question = NoQuestion

\* if not feedings and not question: raise HTTPException(status_code=404, ...)
NoData(window, question) == window = {} /\ Falsy(question)

\* lines 95-156 of analyze_baby_feedings and 215-263 of chat_with_history,
\* for an existing baby: the set of requests the handler can be left with when
\* it reaches the analyze_feedings call (or has answered before it)
Prepare(req, baby, needs_data) ==
    LET now == req.now
        end_dt == IF req.end = NoTime THEN now ELSE req.end
        start_dt == IF req.start = NoTime THEN Midnight(now) ELSE req.start
        is_partial == IsPartial(now, end_dt)
        hours_elapsed == HoursElapsed(start_dt, end_dt)
        window == get_feedings_by_datetime_range(req.baby_id, start_dt, end_dt)
        q1 == <<"feedings", start_dt, end_dt>>
        baseline_start == BaselineStart(start_dt, hours_elapsed)
        baseline_end == BaselineEnd(start_dt)
        baseline_feedings ==
            get_feedings_by_datetime_range(req.baby_id, baseline_start, baseline_end)
        q2 == <<"feedings", baseline_start, baseline_end>>
        age_days == DateOf(now) - baby.birth_date
        rate == _expected_feedings_per_hour(age_days)
        q3 == <<"weights", DateOf(end_dt - 30 * 1440), DateOf(end_dt)>>
        q4 == <<"diapers", start_dt, end_dt>>
    IN  IF InvalidWindow(start_dt, end_dt)
        THEN {Reject(req, 400, "'end' must be after 'start'")}
        ELSE IF needs_data /\ NoData(window, req.question)
        THEN {[Reject(req, 404, "No feedings recorded") EXCEPT !.queries = <<q1>>]}
        ELSE {[req EXCEPT
                 !.age_days = age_days,
                 !.queries = <<q1, q2, q3, q4>>,
                 !.window = window,
                 !.baseline = baseline_feedings,
                 !.is_partial = is_partial,
                 !.has_ctx = TRUE,
                 !.ctx = [start |-> start_dt, end |-> end_dt,
                          is_partial |-> is_partial,
                          hours_elapsed |-> hours_elapsed,
                          feedings_expected |-> Max(1, r),
                          baseline_count |-> Cardinality(baseline_feedings),
                          baseline_volume_ml |-> SumQuantity(baseline_feedings),
                          baseline_start |-> baseline_start,
                          baseline_end |-> baseline_end]]
              : r \in PyRound(rate, hours_elapsed)}

----------------------------------------------------------------------------
(* app/rag/retriever.py and app/rag/indexer.py                             *)

\* node.score is None
NoScore == -1

\* the passages the index can return, best first; scores in thousandths
Node(i) ==
    [file_name |-> IF i % 2 = 1 THEN "who_infant_feeding.md" ELSE "sfp_guide.md",
     score |-> IF i % 2 = 0 THEN NoScore ELSE 1000 - 40 * i,
     text |-> i]

Retrieved(n) == [i \in 1..n |-> Node(i)]

\* the value format_context returns for an empty list
ContextEmpty == [text |-> "Aucun contexte médical disponible.", parts |-> <<>>]

\* the value analyze_feedings substitutes when retrieval raises
ContextUnavailable == [text |-> "Medical context unavailable.", parts |-> <<>>]

\* passages numbered from 0
format_context_from_zero(nodes) ==
    IF nodes = <<>> THEN ContextEmpty
    ELSE [text |-> "",
          parts |-> [i \in 1..Len(nodes) |->
                       [extrait |-> i - 1,
                        source |-> nodes[i].file_name,
                        score |-> IF nodes[i].score # NoScore
                                  THEN <<nodes[i].score \div 1000,
                                         nodes[i].score % 1000>>
                                  ELSE <<>>,
                        text |-> nodes[i].text]]]

\* format_context: the sentinel for an empty list, otherwise one block
\* "--- Extrait i (source: ..., score: ...) ---" and the text per passage
format_context(nodes) ==
    IF nodes = <<>> THEN ContextEmpty
    ELSE [text |-> "",
          parts |-> [i \in 1..Len(nodes) |->
                       [extrait |-> i,
                        source |-> nodes[i].file_name,
                        \* f"{node.score:.3f}" as <<units, thousandths>>,
                        \* <<>> for "N/A"
                        score |-> IF nodes[i].score # NoScore
                                  THEN <<nodes[i].score \div 1000,
                                         nodes[i].score % 1000>>
                                  ELSE <<>>,
                        text |-> nodes[i].text]]]

\* the best passage cited alone
SourcesOf_first(nodes) ==
    [i \in 1..(IF nodes = <<>> THEN 0 ELSE 1) |->
       [source |-> nodes[i].file_name, score |-> nodes[i].score]]

\* the source list analyze_feedings builds from the retrieved nodes
SourcesOf(nodes) ==
    [i \in 1..Len(nodes) |->
       [source |-> nodes[i].file_name, score |-> nodes[i].score]]

\* kwargs = {"query": query, "top_k": 4}
top_k == 4

Min(a, b) == IF a <= b THEN a ELSE b

----------------------------------------------------------------------------
(* Calls in flight                                                         *)

NoRequest == NewRequest("none", 0, NoTime, NoTime, NoQuestion, 0)

IdleCall ==
    [pc |-> "idle", fn |-> "none", caller |-> "none", index |-> FALSE,
     after_fail |-> FALSE, builds |-> 0, loads |-> 0, result |-> "",
     force |-> FALSE, docs_read |-> FALSE, wrote |-> FALSE,
     question |-> NoQuestion, req |-> NoRequest, served |-> 0]

\* analyze_feedings entered (lines 281-304 run, retrieve_context is next)
StartedCall(fn, caller, index, question, req) ==
    [IdleCall EXCEPT !.pc = IF index THEN "search" ELSE "load",
                     !.fn = fn, !.caller = caller, !.index = index,
                     !.after_fail = build_failed, !.question = question,
                     !.req = req]

\* no prompt was assembled
NoPrompt ==
    [built |-> FALSE, reference |-> ContextEmpty, format |-> "",
     question |-> NoQuestion]

\* no call is being assembled
NoPromptCall == [built |-> FALSE]

NoAnalysis ==
    [caller |-> "none", index |-> FALSE, retrieval_raised |-> FALSE,
     raised_by |-> "", nodes |-> <<>>, rag_context |-> ContextEmpty,
     sources |-> <<>>, prompt |-> NoPrompt,
     question |-> NoQuestion, query_question |-> NoQuestion,
     is_report |-> FALSE, max_tokens |-> 0, system_msg |-> "",
     temperature |-> <<0, 10>>,
     llm |-> "", llm_calls |-> 0, outcome |-> "", text |-> ""]

----------------------------------------------------------------------------
(* Index resolution: retrieve_context, load_index, build_index             *)

\* a load that creates the index directory on its way
LoadIndex_mkdir(t) ==
    /\ calls[t].pc = "load"
    /\ index_dir_exists' = TRUE
    /\ calls' = [calls EXCEPT
                   ![t].loads = @ + 1,
                   ![t].pc = IF calls[t].fn = "load_index" THEN "done"
                             ELSE IF index_files THEN "search" ELSE "build",
                   ![t].result = IF calls[t].fn # "load_index" THEN @
                                 ELSE IF index_files THEN "Index"
                                 ELSE "FileNotFoundError"]
    /\ UNCHANGED <<dbVars, reports, last, docs_present,
                   index_files, app_state, analysis, prompt_call, build_failed>>

\* load_index(index_dir): FileNotFoundError when docstore.json is missing, the
\* stored index otherwise; called directly or by retrieve_context when index
\* is None (which goes on to build_index on the error)
LoadIndex(t) ==
    /\ calls[t].pc = "load"
    /\ calls' = [calls EXCEPT
                   ![t].loads = @ + 1,
                   ![t].pc = IF calls[t].fn = "load_index" THEN "done"
                             ELSE IF index_files THEN "search" ELSE "build",
                   ![t].result = IF calls[t].fn # "load_index" THEN @
                                 ELSE IF index_files THEN "Index"
                                 ELSE "FileNotFoundError"]
    /\ UNCHANGED <<dbVars, reports, last, docs_present, index_dir_exists,
                   index_files, app_state, analysis, prompt_call, build_failed>>

\* a build that never looks for a stored index
CacheHit_never(force_rebuild) == FALSE

\* if not force_rebuild and (index_dir / "docstore.json").exists()
CacheHit(force_rebuild) == ~force_rebuild /\ index_files

\* an empty document list taken for an index to build
NoDocuments_ignored == FALSE

\* if not documents: raise FileNotFoundError
NoDocuments == ~docs_present

\* what stops a build that has nothing to index: SimpleDirectoryReader's own
\* ValueError for a directory without a supported file, or the
\* FileNotFoundError of line 59 for files that yield no document
NoDocumentsErrors == {"ValueError", "FileNotFoundError"}

\* build_index up to the documents: mkdir, then the cache check, then the
\* documents are read; called directly or by retrieve_context after the
\* FileNotFoundError of load_index
BuildIndex(t) ==
    /\ calls[t].pc = "build"
    /\ index_dir_exists' = TRUE
    /\ IF CacheHit(calls[t].force)
       THEN /\ calls' = [calls EXCEPT
                           ![t].builds = @ + 1,
                           ![t].pc = IF calls[t].fn = "build_index"
                                     THEN "done" ELSE "search",
                           ![t].result = IF calls[t].fn = "build_index"
                                         THEN "Index" ELSE @]
            /\ UNCHANGED build_failed
       ELSE IF NoDocuments
       THEN /\ \E exc \in NoDocumentsErrors :
                 calls' = [calls EXCEPT
                             ![t].builds = @ + 1,
                             ![t].docs_read = TRUE,
                             ![t].pc = IF calls[t].fn = "build_index"
                                       THEN "done" ELSE "raised",
                             ![t].result = exc]
            /\ build_failed' = (build_failed \/ calls[t].fn # "build_index")
       ELSE /\ calls' = [calls EXCEPT ![t].builds = @ + 1,
                                      ![t].docs_read = TRUE,
                                      ![t].pc = "persist"]
            /\ UNCHANGED build_failed
    /\ UNCHANGED <<dbVars, reports, last, docs_present, index_files, app_state,
                   analysis, prompt_call>>

\* VectorStoreIndex.from_documents and storage_context.persist
PersistIndex(t) ==
    /\ calls[t].pc = "persist"
    /\ index_files' = TRUE
    /\ calls' = [calls EXCEPT
                   ![t].wrote = TRUE,
                   ![t].pc = IF calls[t].fn = "build_index" THEN "done" ELSE "search",
                   ![t].result = IF calls[t].fn = "build_index" THEN "Index" ELSE @]
    /\ UNCHANGED <<dbVars, reports, last, docs_present, index_dir_exists,
                   app_state, analysis, prompt_call, build_failed>>

\* a direct call load_index(index_dir)
LoadStart(t) ==
    /\ calls[t].pc = "idle"
    /\ calls' = [calls EXCEPT ![t] =
                   StartedCall("load_index", "direct", FALSE, NoQuestion, NoRequest)]
    /\ UNCHANGED <<dbVars, reports, last, docs_present, index_dir_exists,
                   index_files, app_state, analysis, prompt_call, build_failed>>

\* a direct call build_index(docs_dir, index_dir, force_rebuild)
BuildStart(t, force_rebuild) ==
    /\ calls[t].pc = "idle"
    /\ calls' = [calls EXCEPT ![t] =
                   [StartedCall("build_index", "direct", FALSE, NoQuestion, NoRequest)
                      EXCEPT !.pc = "build", !.force = force_rebuild]]
    /\ UNCHANGED <<dbVars, reports, last, docs_present, index_dir_exists,
                   index_files, app_state, analysis, prompt_call, build_failed>>

\* a direct call retrieve_context(query) with no pre-loaded index
RetrieveStart(t) ==
    /\ calls[t].pc = "idle"
    /\ calls' = [calls EXCEPT ![t] = StartedCall("retrieve", "direct", FALSE, NoQuestion, NoRequest)]
    /\ UNCHANGED <<dbVars, reports, last, docs_present, index_dir_exists,
                   index_files, app_state, analysis, prompt_call, build_failed>>

\* retrieve_context returns its nodes or lets the exception through
RetrieveReturn(t) ==
    /\ calls[t].fn = "retrieve"
    /\ calls[t].pc \in {"search", "raised"}
    /\ calls' = [calls EXCEPT ![t].pc = "done",
                              ![t].result = IF calls[t].pc = "search"
                                            THEN "nodes" ELSE @]
    /\ UNCHANGED <<dbVars, reports, last, docs_present, index_dir_exists,
                   index_files, app_state, analysis, prompt_call, build_failed>>

----------------------------------------------------------------------------
(* app/api/dependencies.py: get_rag_index                                  *)

\* lines 32-37: the cached index, or None when a load was already attempted
DepCheck(t) ==
    /\ calls[t].pc = "idle"
    /\ calls' = [calls EXCEPT
                   ![t].fn = "get_rag_index",
                   ![t].caller = "direct",
                   ![t].pc = IF app_state.rag_index # "None" \/ app_state.attempted
                             THEN "done" ELSE "dep_load",
                   ![t].result = IF app_state.rag_index # "None"
                                 THEN app_state.rag_index ELSE "None"]
    /\ UNCHANGED <<dbVars, reports, last, docs_present, index_dir_exists,
                   index_files, app_state, analysis, prompt_call, build_failed>>

\* lines 39-50: load_index and, when it returns, the store into app.state
DepLoad(t) ==
    /\ calls[t].pc = "dep_load"
    /\ IF index_files
       THEN /\ app_state' = [app_state EXCEPT !.rag_index = "Index"]
            /\ calls' = [calls EXCEPT ![t].loads = @ + 1, ![t].pc = "dep_finally",
                                      ![t].result = "Index"]
       ELSE /\ calls' = [calls EXCEPT ![t].loads = @ + 1, ![t].pc = "dep_finally",
                                      ![t].result = "None"]
            /\ UNCHANGED app_state
    /\ UNCHANGED <<dbVars, reports, last, docs_present, index_dir_exists,
                   index_files, analysis, prompt_call, build_failed>>

\* load_index raising something other than FileNotFoundError (stored files
\* that cannot be read): the except Exception clause of lines 49-50
DepLoadError(t) ==
    /\ calls[t].pc = "dep_load"
    /\ index_files
    /\ calls' = [calls EXCEPT ![t].loads = @ + 1, ![t].pc = "dep_finally",
                              ![t].result = "None"]
    /\ UNCHANGED <<dbVars, reports, last, docs_present, index_dir_exists,
                   index_files, app_state, analysis, prompt_call, build_failed>>

\* the dependency resolved for one request, the next request can come
DepReturn(t) ==
    /\ calls[t].pc = "done"
    /\ calls[t].fn = "get_rag_index"
    /\ calls[t].served < MaxCalls
    /\ calls' = [calls EXCEPT ![t].pc = "idle", ![t].served = @ + 1]
    /\ UNCHANGED <<dbVars, reports, last, docs_present, index_dir_exists,
                   index_files, app_state, analysis, prompt_call, build_failed>>

\* a return that leaves the flag unset
DepFinally_noflag(t) ==
    /\ calls[t].pc = "dep_finally"
    /\ calls' = [calls EXCEPT ![t].pc = "done"]
    /\ UNCHANGED <<dbVars, reports, last, docs_present, index_dir_exists,
                   index_files, app_state, analysis, prompt_call, build_failed>>

\* lines 51-55: the finally clause sets the flag, then the function returns
DepFinally(t) ==
    /\ calls[t].pc = "dep_finally"
    /\ app_state' = [app_state EXCEPT !.attempted = TRUE]
    /\ calls' = [calls EXCEPT ![t].pc = "done"]
    /\ UNCHANGED <<dbVars, reports, last, docs_present, index_dir_exists,
                   index_files, analysis, prompt_call, build_failed>>

----------------------------------------------------------------------------
(* app/rag/analyzer.py: analyze_feedings                                   *)

LlmOutcomes == {"ok", "credit", "bad_request", "api_error"}
RetrievalFaults == {"none", "retrieve", "format"}

\* the credit error re-raised as it came
LlmResult_reraise(llm) ==
    CASE llm = "ok" -> "returned"
      [] llm = "credit" -> "BadRequestError"
      [] llm = "bad_request" -> "BadRequestError"
      [] OTHER -> "APIError"

\* what client.messages.create and the except clause of lines 362-365 leave
LlmResult(llm) ==
    CASE llm = "ok" -> "returned"
      [] llm = "credit" -> "RuntimeError: No more credit"
      [] llm = "bad_request" -> "BadRequestError"
      [] OTHER -> "APIError"

\* what the search and format_context raise when they fail
FaultException(fault) ==
    CASE fault = "retrieve" -> "RuntimeError"
      [] fault = "format" -> "AttributeError"
      [] OTHER -> ""

\* except FileNotFoundError
ExceptException_narrow(exc) == exc = "FileNotFoundError"

\* except Exception: every exception raised inside the try block is caught
ExceptException(exc) ==
    exc \in {"FileNotFoundError", "ValueError", "RuntimeError", "AttributeError"}

\* the ANALYZER_MAX_TOKENS default and the conversational budget
MAX_TOKENS == 1200
MAX_TOKENS_CONVERSATIONAL == 400

\* _is_report_request on each question the orchestrator can be given
ReportMode == [q \in AnalyzerQuestions |-> _is_report_request(q)]

\* the question put into the query whatever the mode
QueryQuestion_always(question) ==
    IF ~Falsy(question) THEN question ELSE NoQuestion

\* lines 294-298: the retrieval query carries the question in conversational
\* mode only
QueryQuestion(question) ==
    IF ~Falsy(question) /\ ~ReportMode[question]
    THEN question ELSE NoQuestion

\* lines 329-351: the system message of each mode
SystemMessage(is_report) ==
    IF is_report THEN "produce a structured report"
    ELSE "Answer in 2-4 short sentences"

\* temperature=0.2
temperature == <<2, 10>>

\* _build_prompt: the reference block carries the context it is given; the
\* closing section is the report format or the parent's question
_build_prompt(rag_context, question) ==
    IF ReportMode[question]
    THEN [built |-> TRUE, reference |-> rag_context, format |-> "report",
          question |-> NoQuestion]
    ELSE [built |-> TRUE, reference |-> rag_context,
          format |-> "conversational", question |-> question]

\* report_service.save_report: the row it inserts
SavedReport(req, text, sources) ==
    [id |-> Len(reports) + 1, baby_id |-> req.baby_id,
     start_datetime |-> req.ctx.start, end_datetime |-> req.ctx.end,
     is_partial |-> req.is_partial, analysis |-> text, sources |-> sources]

\* whether the route saves the text analyze_feedings returned: always on GET,
\* on chat only for an explicit report request
SavesReport(req) ==
    req.kind = "get" \/ (req.kind = "chat" /\ _is_report_request_label(req.question))

\* the report stored before the outcome of the call is looked at
AfterAnalyze_save_first(req, outcome, text, sources) ==
    IF SavesReport(req)
    THEN /\ reports' = Append(reports, SavedReport(req, text, sources))
         /\ last' = IF outcome # "returned"
                    THEN [Reject(req, 500, outcome) EXCEPT !.saves = 1]
                    ELSE [req EXCEPT !.status = 200, !.saves = 1,
                                     !.report_id = Len(reports) + 1]
    ELSE /\ last' = IF outcome # "returned" THEN Reject(req, 500, outcome)
                    ELSE [req EXCEPT !.status = 200]
         /\ UNCHANGED reports

\* the route once the executor call is over (lines 175-196 and 287-312): an
\* exception of analyze_feedings leaves the handler at once, answered 500;
\* a returned text is saved and answered
AfterAnalyze(req, outcome, text, sources) ==
    IF outcome # "returned"
    THEN /\ last' = Reject(req, 500, outcome)
         /\ UNCHANGED reports
    ELSE IF SavesReport(req)
    THEN /\ reports' = Append(reports, SavedReport(req, text, sources))
         /\ last' = [req EXCEPT !.status = 200, !.saves = 1,
                                !.report_id = Len(reports) + 1]
    ELSE /\ last' = [req EXCEPT !.status = 200]
         /\ UNCHANGED reports

\* a direct call analyze_feedings(baby, feedings, ctx, index=...)
AnalyzeStart(t, index, question) ==
    /\ calls[t].pc = "idle"
    /\ calls' = [calls EXCEPT ![t] =
                   StartedCall("analyze", "direct", index, question, NoRequest)]
    /\ UNCHANGED <<dbVars, reports, last, docs_present, index_dir_exists,
                   index_files, app_state, analysis, prompt_call, build_failed>>

\* lines 306-369, once retrieve_context has its index or has raised: the
\* search, format_context, the source list, the prompt, the reasoning call and
\* the return; for a call made by a route, the rest of the route (lines
\* 175-196 and 287-312) follows
AnalyzeFinish(t, n, fault, llm) ==
    LET c == calls[t]
        exc == IF c.pc = "raised" THEN c.result ELSE FaultException(fault)
        raised == exc # ""
        escapes == raised /\ ~ExceptException(exc)
        nodes == IF c.pc = "raised" \/ fault = "retrieve" THEN <<>> ELSE Retrieved(n)
        rag_context == IF raised THEN ContextUnavailable ELSE format_context(nodes)
        sources == IF raised THEN <<>> ELSE SourcesOf(nodes)
        outcome == IF escapes THEN exc ELSE LlmResult(llm)
        text == IF ~escapes /\ llm = "ok" THEN "analysis text" ELSE ""
        is_report == ReportMode[c.question]
        done == [caller |-> c.caller, index |-> c.index,
                 retrieval_raised |-> raised, raised_by |-> exc,
                 nodes |-> nodes, rag_context |-> rag_context,
                 sources |-> sources,
                 prompt |-> IF escapes THEN NoPrompt
                            ELSE _build_prompt(rag_context, c.question),
                 question |-> c.question,
                 query_question |-> QueryQuestion(c.question),
                 is_report |-> is_report,
                 system_msg |-> IF escapes THEN "" ELSE SystemMessage(is_report),
                 temperature |-> IF escapes THEN <<0, 10>> ELSE temperature,
                 max_tokens |-> IF escapes THEN 0
                                ELSE IF is_report THEN MAX_TOKENS
                                ELSE MAX_TOKENS_CONVERSATIONAL,
                 llm |-> IF escapes THEN "" ELSE llm,
                 llm_calls |-> IF escapes THEN 0 ELSE 1,
                 outcome |-> outcome, text |-> text]
        req == [c.req EXCEPT !.analyzer_calls = 1, !.retrievals = 1,
                             !.llm_calls = done.llm_calls]
    IN  /\ c.fn = "analyze"
        /\ c.pc \in {"search", "raised"}
        /\ c.pc = "raised" => n = 0 /\ fault = "none"
        /\ fault = "retrieve" => n = 0
        /\ fault = "format" => n >= 1
        /\ analysis' = done
        /\ calls' = [calls EXCEPT ![t] = IdleCall]
        /\ IF c.caller = "direct"
           THEN UNCHANGED <<reports, last>>
           ELSE AfterAnalyze(req, outcome, text, sources)
        /\ UNCHANGED <<dbVars, docs_present, index_dir_exists, index_files,
                       app_state, prompt_call, build_failed>>

----------------------------------------------------------------------------
(* The HTTP handlers                                                       *)

\* the handler up to and including the analyze_feedings call (run in the
\* executor): answered, failed on the call, or handed to the orchestrator
Handle(req, needs_data, kwargs) ==
    IF get_baby(req.baby_id) = {}
    THEN /\ last' = Reject(req, 404, "Baby not found")
         /\ UNCHANGED <<calls, reports>>
    ELSE \E p \in Prepare(req, CHOOSE b \in get_baby(req.baby_id) : TRUE, needs_data) :
           IF p.status # 0
           THEN /\ last' = p
                /\ UNCHANGED <<calls, reports>>
           ELSE IF ~BindsOk(kwargs)
           THEN /\ AfterAnalyze(p, "TypeError", "", <<>>)
                /\ UNCHANGED calls
           ELSE /\ calls[1].pc = "idle"
                /\ last' = p
                /\ UNCHANGED reports
                /\ calls' = [calls EXCEPT ![1] =
                               StartedCall("analyze", p.kind,
                                           app_state.rag_index # "None",
                                           p.question, p)]

\* GET /analysis/{baby_id}
analyze_baby_feedings(baby_id, start, end, question) ==
    /\ last = NoRequest
    /\ Handle(NewRequest("get", baby_id, start, end, question, clock), TRUE, GetKwargs)
    /\ UNCHANGED <<dbVars, docs_present, index_dir_exists, index_files,
                   app_state, analysis, prompt_call, build_failed>>

\* POST /analysis/{baby_id}/chat; ChatRequest.question is a required str
chat_with_history(baby_id, start, end, question) ==
    /\ last = NoRequest
    /\ question # NoQuestion
    /\ Handle(NewRequest("chat", baby_id, start, end, question, clock), FALSE, ChatKwargs)
    /\ UNCHANGED <<dbVars, docs_present, index_dir_exists, index_files,
                   app_state, analysis, prompt_call, build_failed>>

\* POST /feedings: 404 for an unknown baby, the row inserted otherwise
add_feeding(baby_id, fed_at, quantity_ml) ==
    LET req == NewRequest("add_feeding", baby_id, NoTime, NoTime, NoQuestion, clock)
    IN  /\ last = NoRequest
        /\ Cardinality(feedings) < MaxFeedings
        /\ IF get_baby(baby_id) = {}
           THEN /\ last' = Reject(req, 404, "Baby not found")
                /\ UNCHANGED feedings
           ELSE /\ feedings' = feedings \cup
                      {[baby_id |-> baby_id, fed_at |-> fed_at,
                        quantity_ml |-> quantity_ml]}
                /\ last' = [req EXCEPT !.status = 201]
        /\ UNCHANGED <<clock, babies, weight_entries, diapers,
                       chat_conversations, baby_seq, reports, ragVars>>

\* the answer leaves the server, which is ready for the next request
SendResponse ==
    /\ last.status # 0
    /\ last' = NoRequest
    /\ UNCHANGED <<dbVars, reports, ragVars>>

----------------------------------------------------------------------------
(* app/rag/analyzer.py: the retrieval query, the summaries and the prompt  *)

\* the ages, notes, feedings and weights put to the prompt builder
PromptAges == {13, 14, 55, 56, 59, 60}
BlankNote == <<" ", " ">>
PlainNote == <<" ", "o", "k">>
PromptFeedTimes == {-400, 1000, 2000}
FeedingRows == [fed_at : PromptFeedTimes, quantity_ml : Quantities,
                notes : {BlankNote, PlainNote}]
FeedingLists == UNION {[1..k -> FeedingRows] : k \in 0..MaxFeedings}
WeightLists ==
    {<<>>,
     <<[measured_at |-> 1500, weight_g |-> 3500, notes |-> <<>>]>>,
     <<[measured_at |-> 1500, weight_g |-> 3500, notes |-> <<"h", "i">>]>>}

\* sorted(..., key=...) on <<key, item>> pairs: ascending, equal keys in
\* input order
RECURSIVE SortPairs(_)
SortPairs(ps) ==
    IF ps = <<>> THEN <<>>
    ELSE LET i == CHOOSE i \in 1..Len(ps) :
                    /\ \A j \in 1..Len(ps) : ps[i][1] <= ps[j][1]
                    /\ \A j \in 1..(i - 1) : ps[j][1] # ps[i][1]
             rest == [j \in 1..(Len(ps) - 1) |-> IF j < i THEN ps[j] ELSE ps[j + 1]]
         IN  <<ps[i]>> \o SortPairs(rest)

Items(ps) == [i \in 1..Len(ps) |-> ps[i][2]]

RECURSIVE SumSeq(_)
SumSeq(q) == IF q = <<>> THEN 0 ELSE Head(q) + SumSeq(Tail(q))

\* the averages over the calendar span of the list
DaysWithData_span(feeding_list) ==
    LET days == {DateOf(feeding_list[i].fed_at) : i \in 1..Len(feeding_list)}
    IN  (CHOOSE d \in days : \A e \in days : e <= d)
        - (CHOOSE d \in days : \A e \in days : d <= e) + 1

\* days_with_data = len(daily_counts)
DaysWithData(feeding_list) ==
    Cardinality({DateOf(feeding_list[i].fed_at) : i \in 1..Len(feeding_list)})

\* _summarize_feedings
_summarize_feedings(feeding_list) ==
    IF feeding_list = <<>>
    THEN [text |-> "No feedings recorded for this period.", count |-> 0,
          days_with_data |-> 0, avg_feeds_per_day |-> <<0, 1>>,
          avg_ml_per_day |-> <<0, 1>>, total_ml |-> 0, lines |-> <<>>]
    ELSE LET total_ml == SumSeq([i \in 1..Len(feeding_list) |-> feeding_list[i].quantity_ml])
             count == Len(feeding_list)
             days_with_data == DaysWithData(feeding_list)
         IN  [text |-> "",
              count |-> count,
              days_with_data |-> days_with_data,
              avg_feeds_per_day |-> IF days_with_data # 0
                                    THEN <<count, days_with_data>> ELSE <<0, 1>>,
              avg_ml_per_day |-> IF days_with_data # 0
                                 THEN <<total_ml, days_with_data>> ELSE <<0, 1>>,
              total_ml |-> total_ml,
              lines |-> Items(SortPairs([i \in 1..Len(feeding_list) |->
                                           <<feeding_list[i].fed_at, feeding_list[i]>>]))]

\* a note counted whatever it holds
HasNote_any(notes) == TRUE

\* if f.notes and f.notes.strip()
HasNote(notes) == notes # <<>> /\ Strip(notes) # <<>>

\* _extract_contextual_events: the non-blank notes of the feedings, then of
\* the weights, sorted by timestamp
_extract_contextual_events(feeding_list, weights) ==
    LET fi == SelectSeq([i \in 1..Len(feeding_list) |->
                           <<feeding_list[i].fed_at,
                             [ts |-> feeding_list[i].fed_at, kind |-> "feeding",
                              note |-> Strip(feeding_list[i].notes),
                              has |-> HasNote(feeding_list[i].notes)]>>],
                        LAMBDA e : e[2].has)
        wi == SelectSeq([i \in 1..Len(weights) |->
                           <<weights[i].measured_at,
                             [ts |-> weights[i].measured_at, kind |-> "weight",
                              note |-> Strip(weights[i].notes),
                              has |-> HasNote(weights[i].notes)]>>],
                        LAMBDA e : e[2].has)
    IN  Items(SortPairs(fi \o wi))

\* age_str of _build_prompt (lines 158-167)
AgeStr(age_days) ==
    IF age_days < 14 THEN <<age_days, "days">>
    ELSE IF age_days \div 7 < 8 THEN <<age_days \div 7, "weeks">>
    ELSE <<age_days \div 30, "months">>

\* age_query of analyze_feedings (lines 285-290)
AgeQuery(age_days) ==
    IF age_days < 14 THEN <<age_days, "days">>
    ELSE IF age_days < 60 THEN <<age_days \div 7, "weeks">>
    ELSE <<age_days \div 30, "months">>

\* data_block of _build_prompt, section by section
data_block(age_days, feeding_list, rag_context, is_partial, baseline_count, weights) ==
    LET events == _extract_contextual_events(feeding_list, weights)
    IN  <<[section |-> "## Medical reference context", reference |-> rag_context],
          [section |-> "## Baby profile", age_str |-> AgeStr(age_days),
           norms_note |-> _expected_feedings_per_hour(age_days)]>>
        \o (IF weights # <<>>
            THEN <<[section |-> "## Weight measurements", weights |-> weights]>>
            ELSE <<>>)
        \o <<[section |-> "## Window", is_partial |-> is_partial,
              baseline |-> IF baseline_count > 0
                           THEN "(previous equivalent period)"
                           ELSE "No previous data to compare."]>>
        \o (IF events # <<>>
            THEN <<[section |-> "## Parent notes", events |-> events]>>
            ELSE <<>>)
        \o <<[section |-> "## Feeding data",
              summary |-> _summarize_feedings(feeding_list)]>>

\* the whole prompt: data_block, grounding, then the section of the mode
PromptSections(age_days, feeding_list, rag_context, is_partial, baseline_count, weights, question) ==
    data_block(age_days, feeding_list, rag_context, is_partial, baseline_count, weights)
    \o <<[section |-> "## Instructions"]>>
    \o <<IF ReportMode[question]
         THEN [section |-> "## Output format", is_partial |-> is_partial]
         ELSE [section |-> "## Parent's question", question |-> question]>>

\* analyze_feedings from its entry to the assembled prompt (lines 281-298 and
\* 319), the retrieval having returned one passage
PromptCall(feeding_list, weights, question, is_partial, baseline_count) ==
    LET age_days == DateOf(clock) - (CHOOSE b \in babies : TRUE).birth_date
        rag_context == format_context(Retrieved(1))
    IN  /\ prompt_call = NoPromptCall
        /\ prompt_call' =
             [built |-> TRUE, age_days |-> age_days, feedings |-> feeding_list,
              weights |-> weights, question |-> question,
              is_partial |-> is_partial, baseline_count |-> baseline_count,
              age_query |-> AgeQuery(age_days),
              query_question |-> QueryQuestion(question),
              sections |-> PromptSections(age_days, feeding_list, rag_context,
                                          is_partial, baseline_count, weights,
                                          question)]
        /\ UNCHANGED <<dbVars, reports, last, docs_present, index_dir_exists,
                       index_files, app_state, calls, analysis, build_failed>>

\* the call goes on to the reasoning service
PromptDone ==
    /\ prompt_call # NoPromptCall
    /\ prompt_call' = NoPromptCall
    /\ UNCHANGED <<dbVars, reports, last, docs_present, index_dir_exists,
                   index_files, app_state, calls, analysis, build_failed>>

----------------------------------------------------------------------------
(* The stored records: babies and the tables that reference them           *)

\* a position of analysis_reports whose row was deleted; AUTOINCREMENT does
\* not give the id again
NoRow == [id |-> 0, baby_id |-> 0]

\* report_service.get_report: SELECT * FROM analysis_reports WHERE id = ?
get_report(report_id) ==
    IF report_id \in 1..Len(reports) /\ reports[report_id] # NoRow
    THEN {reports[report_id]} ELSE {}

\* the rows of a deleted baby left in place
Cascade_keep(rows, baby_id) == rows

\* REFERENCES babies(id) ON DELETE CASCADE
Cascade(rows, baby_id) == {r \in rows : r.baby_id # baby_id}

\* the same for analysis_reports, kept by id
CascadeReports(baby_id) ==
    LET kept == Cascade({reports[i] : i \in 1..Len(reports)}, baby_id)
    IN  [i \in 1..Len(reports) |-> IF reports[i] \in kept THEN reports[i] ELSE NoRow]

\* a request or service call on the stored records
StoreRequest(kind, baby_id) ==
    NewRequest(kind, baby_id, NoTime, NoTime, NoQuestion, clock)

\* POST /babies
create_baby(age_days) ==
    /\ last = NoRequest
    /\ baby_seq < MaxBabies
    /\ baby_seq' = baby_seq + 1
    /\ babies' = babies \cup
           {[id |-> baby_seq + 1, birth_date |-> DateOf(clock) - age_days]}
    /\ last' = [StoreRequest("create_baby", baby_seq + 1) EXCEPT !.status = 201]
    /\ UNCHANGED <<clock, feedings, weight_entries, diapers, chat_conversations,
                   reports, ragVars>>

\* DELETE /babies/{baby_id}: the row and, by the foreign keys, every row that
\* references it
delete_baby(baby_id) ==
    /\ last = NoRequest
    /\ IF get_baby(baby_id) = {}
       THEN /\ last' = Reject(StoreRequest("delete_baby", baby_id), 404,
                              "Baby not found")
            /\ UNCHANGED <<babies, feedings, weight_entries, diapers,
                           chat_conversations, reports>>
       ELSE /\ babies' = babies \ get_baby(baby_id)
            /\ feedings' = Cascade(feedings, baby_id)
            /\ weight_entries' = Cascade(weight_entries, baby_id)
            /\ diapers' = Cascade(diapers, baby_id)
            /\ chat_conversations' = Cascade(chat_conversations, baby_id)
            /\ reports' = CascadeReports(baby_id)
            /\ last' = [StoreRequest("delete_baby", baby_id) EXCEPT !.status = 204]
    /\ UNCHANGED <<clock, baby_seq, ragVars>>

\* baby = await baby_service.get_baby(db, payload.baby_id); if not baby: 404
BabyChecked(baby_id) == get_baby(baby_id) # {}

\* POST /weights
add_weight(baby_id) ==
    /\ last = NoRequest
    /\ IF ~BabyChecked(baby_id)
       THEN /\ last' = Reject(StoreRequest("add_weight", baby_id), 404,
                              "Baby not found")
            /\ UNCHANGED weight_entries
       ELSE /\ weight_entries' = weight_entries \cup {[baby_id |-> baby_id]}
            /\ last' = [StoreRequest("add_weight", baby_id) EXCEPT !.status = 201]
    /\ UNCHANGED <<clock, babies, feedings, diapers, chat_conversations,
                   baby_seq, reports, ragVars>>

\* POST /diapers
add_diaper(baby_id) ==
    /\ last = NoRequest
    /\ IF ~BabyChecked(baby_id)
       THEN /\ last' = Reject(StoreRequest("add_diaper", baby_id), 404,
                              "Baby not found")
            /\ UNCHANGED diapers
       ELSE /\ diapers' = diapers \cup {[baby_id |-> baby_id]}
            /\ last' = [StoreRequest("add_diaper", baby_id) EXCEPT !.status = 201]
    /\ UNCHANGED <<clock, babies, feedings, weight_entries, chat_conversations,
                   baby_seq, reports, ragVars>>

\* POST /conversations
create_conversation(baby_id) ==
    /\ last = NoRequest
    /\ IF ~BabyChecked(baby_id)
       THEN /\ last' = Reject(StoreRequest("create_conversation", baby_id), 404,
                              "Baby not found")
            /\ UNCHANGED chat_conversations
       ELSE /\ chat_conversations' = chat_conversations \cup {[baby_id |-> baby_id]}
            /\ last' = [StoreRequest("create_conversation", baby_id)
                          EXCEPT !.status = 201]
    /\ UNCHANGED <<clock, babies, feedings, weight_entries, diapers,
                   baby_seq, reports, ragVars>>

\* report_service.save_report called with a text to store; the foreign key
\* refuses a row for a baby that does not exist
save_report(baby_id) ==
    LET req == StoreRequest("save_report", baby_id)
    IN  /\ last = NoRequest
        /\ Len(reports) < MaxReports
        /\ IF get_baby(baby_id) = {}
           THEN /\ last' = Reject(req, 500, "IntegrityError")
                /\ UNCHANGED reports
           ELSE /\ reports' = Append(reports, SavedReport(req, "analysis text", <<>>))
                /\ last' = [req EXCEPT !.status = 200, !.saves = 1,
                                       !.report_id = Len(reports) + 1]
        /\ UNCHANGED <<dbVars, ragVars>>

\* the path baby is not compared with the report's
OwnedReport_any(baby_id, report_id) == get_report(report_id)

\* report = await get_report(db, report_id);
\* if not report or report.baby_id != baby_id: 404
OwnedReport(baby_id, report_id) ==
    {r \in get_report(report_id) : r.baby_id = baby_id}

\* GET /analysis/{baby_id}/history/{report_id}
get_analysis_report(baby_id, report_id) ==
    LET req == [StoreRequest("get_report", baby_id) EXCEPT !.report_id = report_id]
    IN  /\ last = NoRequest
        /\ last' = IF OwnedReport(baby_id, report_id) = {}
                   THEN Reject(req, 404, "Report not found")
                   ELSE [req EXCEPT !.status = 200]
        /\ UNCHANGED <<dbVars, reports, ragVars>>

\* DELETE /analysis/{baby_id}/history/{report_id}
delete_analysis_report(baby_id, report_id) ==
    LET req == [StoreRequest("delete_report", baby_id) EXCEPT !.report_id = report_id]
    IN  /\ last = NoRequest
        /\ IF OwnedReport(baby_id, report_id) = {}
           THEN /\ last' = Reject(req, 404, "Report not found")
                /\ UNCHANGED reports
           ELSE /\ reports' = [reports EXCEPT ![report_id] = NoRow]
                /\ last' = [req EXCEPT !.status = 204]
        /\ UNCHANGED <<dbVars, ragVars>>

----------------------------------------------------------------------------
(* Specifications                                                          *)

\* main.py lifespan: rag_index = None, no _rag_index_load_attempted attribute
AppStart == [rag_index |-> "None", attempted |-> FALSE]

\* the HTTP layer over a database with one baby
Init ==
    /\ clock \in Nows
    /\ \E age \in Ages : babies = {[id |-> 1, birth_date |-> DateOf(clock) - age]}
    /\ feedings = {}
    /\ weight_entries = {}
    /\ diapers = {}
    /\ chat_conversations = {}
    /\ baby_seq = 1
    /\ reports = <<>>
    /\ last = NoRequest
    /\ docs_present = TRUE
    /\ index_dir_exists = FALSE
    /\ index_files = FALSE
    /\ app_state = AppStart
    /\ calls = [t \in Threads |-> IdleCall]
    /\ analysis = NoAnalysis
    /\ prompt_call = NoPromptCall
    /\ build_failed = FALSE

Next ==
    \/ \E f \in FeedTimes, q \in Quantities : add_feeding(1, f, q)
    \/ \E b \in BabyIds, s \in StartOpts, e \in EndOpts, q \in Questions :
         analyze_baby_feedings(b, s, e, q)
    \/ \E b \in BabyIds, s \in StartOpts, e \in EndOpts, q \in Questions :
         chat_with_history(b, s, e, q)
    \/ SendResponse

Spec == Init /\ [][Next]_vars

\* any state of the disk the process can start on
InitDisk ==
    /\ clock = 2585
    /\ babies = {[id |-> 1, birth_date |-> DateOf(clock) - 7]}
    /\ feedings = {}
    /\ weight_entries = {}
    /\ diapers = {}
    /\ chat_conversations = {}
    /\ baby_seq = 1
    /\ reports = <<>>
    /\ last = NoRequest
    /\ docs_present \in BOOLEAN
    /\ index_dir_exists \in BOOLEAN
    /\ index_files \in BOOLEAN
    /\ index_files => index_dir_exists
    /\ app_state = AppStart
    /\ calls = [t \in Threads |-> IdleCall]
    /\ analysis = NoAnalysis
    /\ prompt_call = NoPromptCall
    /\ build_failed = FALSE

\* one caller making analyze_feedings calls one after the other
NextAnalyze ==
    \/ \E i \in BOOLEAN, q \in AnalyzerQuestions : AnalyzeStart(1, i, q)
    \/ LoadIndex(1)
    \/ BuildIndex(1)
    \/ PersistIndex(1)
    \/ \E n \in 0..Min(top_k, MaxNodes), f \in RetrievalFaults, l \in LlmOutcomes :
         AnalyzeFinish(1, n, f, l)

SpecAnalyze == InitDisk /\ [][NextAnalyze]_vars

\* threads resolving the index concurrently
NextIndex ==
    \E t \in Threads :
        \/ RetrieveStart(t)
        \/ LoadStart(t)
        \/ \E f \in BOOLEAN : BuildStart(t, f)
        \/ LoadIndex(t)
        \/ BuildIndex(t)
        \/ PersistIndex(t)
        \/ RetrieveReturn(t)
        \/ DepCheck(t)
        \/ DepLoad(t)
        \/ DepFinally(t)

SpecIndex == InitDisk /\ [][NextIndex]_vars

\* one caller resolving the dependency for request after request while the
\* index build runs once beside it
NextDep ==
    \/ DepCheck(1)
    \/ DepLoad(1)
    \/ DepLoadError(1)
    \/ DepFinally(1)
    \/ DepReturn(1)
    \/ \E f \in BOOLEAN : BuildStart(2, f)
    \/ BuildIndex(2)
    \/ PersistIndex(2)

SpecDep == InitDisk /\ [][NextDep]_vars

\* an empty database
InitStore ==
    /\ clock = 2585
    /\ babies = {}
    /\ baby_seq = 0
    /\ feedings = {}
    /\ weight_entries = {}
    /\ diapers = {}
    /\ chat_conversations = {}
    /\ reports = <<>>
    /\ last = NoRequest
    /\ docs_present = TRUE
    /\ index_dir_exists = FALSE
    /\ index_files = FALSE
    /\ app_state = AppStart
    /\ calls = [t \in Threads |-> IdleCall]
    /\ analysis = NoAnalysis
    /\ prompt_call = NoPromptCall
    /\ build_failed = FALSE

\* requests that create, read and delete stored records
NextStore ==
    \/ create_baby(7)
    \/ \E b \in BabyIds : delete_baby(b)
    \/ \E b \in BabyIds : add_feeding(b, 1000, 70)
    \/ \E b \in BabyIds : add_weight(b)
    \/ \E b \in BabyIds : add_diaper(b)
    \/ \E b \in BabyIds : create_conversation(b)
    \/ \E b \in BabyIds : save_report(b)
    \/ \E b \in BabyIds, r \in 1..MaxReports : get_analysis_report(b, r)
    \/ \E b \in BabyIds, r \in 1..MaxReports : delete_analysis_report(b, r)
    \/ SendResponse

SpecStore == InitStore /\ [][NextStore]_vars

\* a database with one baby of any of the ages
InitPrompt ==
    /\ clock = 2585
    /\ \E age \in PromptAges : babies = {[id |-> 1, birth_date |-> DateOf(clock) - age]}
    /\ baby_seq = 1
    /\ feedings = {}
    /\ weight_entries = {}
    /\ diapers = {}
    /\ chat_conversations = {}
    /\ reports = <<>>
    /\ last = NoRequest
    /\ docs_present = TRUE
    /\ index_dir_exists = TRUE
    /\ index_files = TRUE
    /\ app_state = AppStart
    /\ calls = [t \in Threads |-> IdleCall]
    /\ analysis = NoAnalysis
    /\ prompt_call = NoPromptCall
    /\ build_failed = FALSE

\* one caller assembling the query and the prompt of call after call
NextPrompt ==
    \/ /\ prompt_call = NoPromptCall
       /\ \E f \in FeedingLists, w \in WeightLists, q \in {NoQuestion, ConvQuestion},
             p \in BOOLEAN, c \in {0, 1} : PromptCall(f, w, q, p, c)
    \/ PromptDone

SpecPrompt == InitPrompt /\ [][NextPrompt]_vars

TypeOK ==
    /\ clock \in Nows
    /\ last.status \in {0, 200, 201, 204, 400, 404, 500}
    /\ \A t \in Threads : calls[t].builds \in 0..1 /\ calls[t].loads \in 0..1

----------------------------------------------------------------------------
(* Properties                                                              *)

\* the window the handler resolves for the last request
ResolvedEnd == IF last.end = NoTime THEN last.now ELSE last.end
ResolvedStart == IF last.start = NoTime THEN Midnight(last.now) ELSE last.start
Resolved == last.kind \in {"get", "chat"} /\ get_baby(last.baby_id) # {}

\* C1: on both endpoints, a request whose resolved window has end <= start is
\* answered 400 and has made no event-store query, no retrieval, no
\* orchestrator or reasoning-service call and no save_report.
C1_InvalidWindowRejected ==
    (Resolved /\ last.status # 0 /\ ResolvedEnd <= ResolvedStart) =>
        /\ last.status = 400
        /\ last.queries = <<>>
        /\ last.analyzer_calls = 0
        /\ last.retrievals = 0
        /\ last.llm_calls = 0
        /\ last.saves = 0
        /\ reports = <<>>
        /\ \A t \in Threads : calls[t].pc = "idle"

C1_Witness ==
    /\ last.kind = "chat"
    /\ last.status = 400
    /\ last.end = NoTime
    /\ ResolvedEnd <= ResolvedStart

\* C2: a call of analyze_feedings whose retrieval raised still assembles a
\* prompt and invokes the reasoning service exactly once; the retrieval error
\* is never its outcome, and when the reasoning service answers the call
\* returns the text with the source list.
C2_RetrievalFailureNotFatal ==
    analysis.retrieval_raised =>
        /\ analysis.prompt.built
        /\ analysis.llm_calls = 1
        /\ analysis.outcome # analysis.raised_by
        /\ analysis.outcome \in {LlmResult(l) : l \in LlmOutcomes}
        /\ analysis.llm = "ok" =>
              /\ analysis.outcome = "returned"
              /\ analysis.text # ""
              /\ analysis.sources = <<>>

C2_Witness ==
    /\ analysis.retrieval_raised
    /\ analysis.raised_by = "AttributeError"
    /\ analysis.outcome = "returned"

\* C3: when retrieval raised, the context in the prompt is the value
\* format_context returns for an empty passage list.
C3_OneSentinel ==
    (analysis.retrieval_raised /\ analysis.prompt.built) =>
        analysis.prompt.reference = format_context(<<>>)

\* C4: a request that starts after a build attempt has failed does not call
\* build_index again.
C4_NoRebuildAfterFailure ==
    \A t \in Threads : calls[t].after_fail => calls[t].builds = 0

\* C5: over any interleaving of get_rag_index calls, at most one of them
\* starts a load of the index.
C5_AtMostOneLoadStarted ==
    Cardinality({t \in Threads : calls[t].fn = "get_rag_index"
                                 /\ calls[t].loads > 0}) <= 1

\* C6: on both endpoints is_partial is true iff now - end < 30 minutes (false
\* at exactly 30 minutes and above), and the value in the response and in the
\* saved report is the one in the AnalysisContext.
C6_PartialIffWithinThreshold ==
    last.has_ctx =>
        /\ last.ctx.is_partial <=> (last.now - last.ctx.end < 30)
        /\ last.is_partial = last.ctx.is_partial
        /\ last.saves = 1 => reports[last.report_id].is_partial = last.ctx.is_partial

C6_Witness ==
    /\ last.has_ctx
    /\ last.kind = "get"
    /\ last.now - last.ctx.end = 30
    /\ ~last.ctx.is_partial

\* the scenario of C7: born 7 days ago, window 00:00 to 19:00, now = 19:05
C7_Scenario ==
    /\ last.has_ctx
    /\ last.age_days = 7
    /\ last.ctx.start = Midnight(last.now)
    /\ last.ctx.end = Midnight(last.now) + 19 * 60
    /\ last.now = Midnight(last.now) + 19 * 60 + 5

\* C7 as stated: in the scenario is_partial is False and feedings_expected is 7.
C7_ScenarioNotPartial ==
    C7_Scenario => (~last.ctx.is_partial /\ last.ctx.feedings_expected = 7)

\* C7 as amended: in the scenario is_partial is True (now - end is 5 minutes)
\* and feedings_expected is 7.
C7_ScenarioPartial ==
    C7_Scenario => (last.ctx.is_partial /\ last.ctx.feedings_expected = 7)

C7_Witness == C7_Scenario /\ last.kind = "get" /\ last.window # {}

\* C8: for an accepted window, hours_elapsed is end - start in hours and the
\* baseline query covers [start - (end - start), start].
C8_BaselineWindow ==
    last.has_ctx =>
        LET c == last.ctx
        IN  /\ c.start < c.end
            /\ c.hours_elapsed[1] * 60 = (c.end - c.start) * c.hours_elapsed[2]
            /\ Len(last.queries) >= 2
            /\ last.queries[2] = <<"feedings", c.start - (c.end - c.start), c.start>>
            /\ c.baseline_end = c.start
            /\ c.baseline_end - c.baseline_start = c.end - c.start

C8_Witness ==
    /\ last.has_ctx
    /\ last.kind = "chat"
    /\ last.ctx.end - last.ctx.start = 580
    /\ last.ctx.baseline_start = 1420

\* C9: the baseline counts exactly the feedings with
\* start - hours_elapsed <= fed_at < start, and no feeding is both in the
\* analysis window and in the baseline.
C9_BaselineHalfOpen ==
    last.has_ctx =>
        LET c == last.ctx
            half_open == {f \in feedings : /\ f.baby_id = last.baby_id
                                           /\ c.baseline_start <= f.fed_at
                                           /\ f.fed_at < c.start}
        IN  /\ c.baseline_count = Cardinality(half_open)
            /\ c.baseline_volume_ml = SumQuantity(half_open)
            /\ last.window \cap last.baseline = {}

\* the step function of C10, in feedings per 240 hours
C10_RatePer240h(age_days) ==
    IF age_days < 30 THEN 90
    ELSE IF age_days < 60 THEN 75
    ELSE IF age_days < 120 THEN 60
    ELSE 50

\* C10: feedings_expected is an integer >= 1 equal to max(1, r) for an integer
\* r nearest to expected_rate(age_days) * hours_elapsed, and expected_rate is
\* the step function 9/24, 7.5/24, 6/24, 5/24 with steps at 30, 60, 120 days.
C10_FeedingsExpected ==
    /\ \A a \in Ages :
         _expected_feedings_per_hour(a)[1] * 240
             = C10_RatePer240h(a) * _expected_feedings_per_hour(a)[2]
    /\ last.has_ctx =>
         LET n == C10_RatePer240h(last.age_days) * (last.ctx.end - last.ctx.start)
             d == 240 * 60
         IN  /\ last.ctx.feedings_expected \in Nat
             /\ last.ctx.feedings_expected >= 1
             /\ \E r \in 0..(n \div d + 1) :
                  /\ 2 * r * d - 2 * n <= d
                  /\ 2 * n - 2 * r * d <= d
                  /\ last.ctx.feedings_expected = Max(1, r)

C10_Witness ==
    /\ last.has_ctx
    /\ last.age_days = 30
    /\ last.ctx.end - last.ctx.start = 1140
    /\ last.ctx.feedings_expected = 6


\* the keyword "summary"
SummaryKeyword == <<"s", "u", "m", "m", "a", "r", "y">>

\* the classification of the questions put to analyze_feedings, read off
\* _REPORT_KEYWORDS by hand
ExpectedReport(question) ==
    CASE question = NoQuestion -> TRUE
      [] question = <<>> -> TRUE
      [] question = ReportQuestion -> TRUE
      [] question = ShoutQuestion -> TRUE
      [] question = ConvQuestion -> FALSE
      [] question = SummaryQuestion -> FALSE

\* C11 as stated: the report set includes "summary", so every call of
\* analyze_feedings is in report mode exactly when its question is absent,
\* empty, or contains "summary" or another report keyword.
C11_SummaryIsReport ==
    analysis.caller = "direct" =>
        analysis.is_report =
            (\/ Falsy(analysis.question)
             \/ \E kw \in _REPORT_KEYWORDS \cup {SummaryKeyword} :
                  Contains(Strip(Lower(analysis.question)), kw))

\* C11 (amended): a call of analyze_feedings is in report mode when its
\* question is absent or empty, and otherwise exactly when the lower-cased,
\* trimmed question contains one of analyze, analyse, analysis, report, bilan,
\* full report, detailed, rapport, complet; "summary" is not a report keyword;
\* the classification does not depend on letter case.
C11_ReportClassifier ==
    analysis.caller = "direct" =>
        /\ analysis.is_report = ExpectedReport(analysis.question)
        /\ ~Falsy(analysis.question) =>
             analysis.is_report = _is_report_request(Lower(analysis.question))
        /\ analysis.prompt.built =>
             analysis.prompt.format =
                 IF ExpectedReport(analysis.question) THEN "report"
                 ELSE "conversational"

C11_Witness ==
    /\ analysis.caller = "direct"
    /\ analysis.question = ShoutQuestion
    /\ analysis.is_report
    /\ analysis.prompt.format = "report"


\* the events of the window the handler resolves for the last request
ResolvedWindow ==
    get_feedings_by_datetime_range(last.baby_id, ResolvedStart, ResolvedEnd)

\* the handler of the last request has answered
Answered == Resolved /\ last.status # 0 /\ ~InvalidWindow(ResolvedStart, ResolvedEnd)

\* C12: a GET whose window holds no event and whose question is absent or
\* empty is answered 404 "nothing to analyze" after the window query alone:
\* no orchestrator call, no reasoning call, no report saved.
C12_NoDataNotFound ==
    (Answered /\ last.kind = "get" /\ ResolvedWindow = {} /\ Falsy(last.question)) =>
        /\ last.status = 404
        /\ last.detail = "No feedings recorded"
        /\ Len(last.queries) = 1
        /\ last.analyzer_calls = 0
        /\ last.llm_calls = 0
        /\ last.saves = 0
        /\ reports = <<>>
        /\ \A t \in Threads : calls[t].pc = "idle"

C12_Witness ==
    /\ last.kind = "get"
    /\ last.question = <<>>
    /\ last.status = 404
    /\ last.detail = "No feedings recorded"
    /\ feedings # {}
    /\ ResolvedWindow = {}


\* C13: whenever the window of a request holds no event and the question is
\* classified as a report request, the handler answers "nothing to analyze"
\* and does not go on to the orchestrator.
C13_EmptyOnlyConversational ==
    (Answered /\ ResolvedWindow = {} /\ ReportMode[last.question]) =>
        /\ last.status = 404
        /\ last.detail = "No feedings recorded"
        /\ Len(last.queries) = 1


\* C14: a request whose window holds no event and whose question is
\* conversational is not answered with an error: the orchestrator runs, the
\* reasoning service is invoked once and the request succeeds.
C14_EmptyConversationalAnswered ==
    (Answered /\ ResolvedWindow = {} /\ last.question = ConvQuestion) =>
        /\ last.status = 200
        /\ last.analyzer_calls = 1
        /\ last.llm_calls = 1

\* C16: a report row is added only by a handler whose analyze_feedings call
\* returned, and a handler whose call raised answers 500 having saved nothing.
C16_SaveOnlyAfterSuccess ==
    [][/\ reports' # reports =>
            /\ last'.status = 200
            /\ last'.saves = 1
            /\ Len(reports') = Len(reports) + 1
       /\ (last'.status = 500 /\ last.status = 0) =>
            /\ reports' = reports
            /\ last'.saves = 0]_vars

C16_Witness ==
    /\ last.kind = "get"
    /\ last.status = 500
    /\ last.detail = "TypeError"
    /\ Len(last.queries) = 4
    /\ ResolvedWindow # {}
    /\ last.saves = 0
    /\ reports = <<>>

\* C17: a request for an existing baby over a valid window that holds at least
\* one feeding is answered 200 after one orchestrator call.
C17_ValidRequestSucceeds ==
    (Answered /\ ResolvedWindow # {}) =>
        /\ last.status = 200
        /\ last.analyzer_calls = 1


\* C15: a call of analyze_feedings whose reasoning call fails on exhausted
\* credit raises its own error, different from what any other reasoning
\* failure leaves; the other failures come out as they were raised; the
\* reasoning service is invoked once, with no retry.
C15_QuotaErrorDistinct ==
    (analysis.caller = "direct" /\ analysis.llm # "") =>
        /\ analysis.llm_calls = 1
        /\ analysis.llm = "credit" =>
             analysis.outcome = "RuntimeError: No more credit"
        /\ analysis.llm = "bad_request" => analysis.outcome = "BadRequestError"
        /\ analysis.llm = "api_error" => analysis.outcome = "APIError"
        /\ analysis.llm = "ok" => analysis.outcome = "returned"
        /\ analysis.llm # "ok" => analysis.text = ""

C15_Witness ==
    /\ analysis.caller = "direct"
    /\ analysis.llm = "credit"
    /\ analysis.llm_calls = 1
    /\ analysis.outcome = "RuntimeError: No more credit"


\* the documents directory, the index directory and the index files
Disk == <<docs_present, index_dir_exists, index_files>>

\* C18: build_index without force_rebuild on a persisted index does what
\* load_index does: it returns the stored index without reading the documents
\* and without writing anything, however often it is called; with
\* force_rebuild it reads the documents again and persists the index again.
C18_CachedBuildIsLoad ==
    [][\A t \in Threads :
         /\ (calls[t].fn = "build_index" /\ calls[t].pc = "build"
             /\ calls'[t].pc # "build") =>
              IF ~calls[t].force /\ index_files
              THEN /\ calls'[t].pc = "done"
                   /\ calls'[t].result = "Index"
                   /\ ~calls'[t].docs_read
                   /\ ~calls'[t].wrote
                   /\ Disk' = Disk
              ELSE /\ calls'[t].docs_read
                   /\ docs_present => calls'[t].pc = "persist"
         /\ (calls[t].fn = "build_index" /\ calls[t].pc = "persist"
             /\ calls'[t].pc # "persist") =>
              /\ index_files'
              /\ calls'[t].wrote
              /\ calls'[t].result = "Index"
         /\ (calls[t].fn = "load_index" /\ calls[t].pc = "load"
             /\ calls'[t].pc # "load" /\ index_files) =>
              /\ calls'[t].result = "Index"
              /\ Disk' = Disk]_vars

\* two plain builds over a persisted index, with documents at hand
C18_Witness ==
    /\ docs_present
    /\ \A t \in {1, 2} :
         /\ calls[t].fn = "build_index"
         /\ ~calls[t].force
         /\ calls[t].pc = "done"
         /\ calls[t].result = "Index"
         /\ ~calls[t].docs_read
         /\ ~calls[t].wrote

\* C19: load_index raises FileNotFoundError exactly when no index is
\* persisted, returns the index otherwise, and in both cases leaves the
\* documents, the index directory and the index files as they were.
C19_LoadIndexReadOnly ==
    [][\A t \in Threads :
         (calls[t].pc = "load" /\ calls'[t].pc # "load") =>
            /\ Disk' = Disk
            /\ calls'[t].loads = calls[t].loads + 1
            /\ calls[t].fn = "load_index" =>
                 /\ calls'[t].pc = "done"
                 /\ calls'[t].result =
                      IF index_files THEN "Index" ELSE "FileNotFoundError"
            /\ calls[t].fn # "load_index" =>
                 calls'[t].pc = IF index_files THEN "search" ELSE "build"]_vars

C19_Witness ==
    /\ ~index_dir_exists
    /\ ~index_files
    /\ \E t \in Threads :
         /\ calls[t].fn = "load_index"
         /\ calls[t].pc = "done"
         /\ calls[t].result = "FileNotFoundError"


ReportRows == {reports[i] : i \in 1..Len(reports)} \ {NoRow}

\* every stored row that references a baby
ChildRows == feedings \cup weight_entries \cup diapers \cup chat_conversations

\* C21: over any sequence of creations and deletions, a row is inserted only
\* for an existing baby (the request is refused and every table is left as it
\* was otherwise), and deleting a baby removes its rows from every table, so
\* that no stored row references a baby that does not exist.
C21_ReferentialIntegrity ==
    [][/\ \A r \in ChildRows' \cup ReportRows' : \E b \in babies' : b.id = r.baby_id
       /\ (last.status = 0 /\ last'.status \in {404, 500}) =>
            /\ ChildRows' = ChildRows
            /\ reports' = reports
            /\ babies' = babies
       /\ (last'.kind = "delete_baby" /\ last'.status = 204) =>
            /\ \A b \in babies' : b.id # last'.baby_id
            /\ \A r \in ChildRows' \cup ReportRows' : r.baby_id # last'.baby_id
            /\ \A r \in ChildRows \cup ReportRows :
                 r.baby_id # last'.baby_id => r \in ChildRows' \cup ReportRows']_vars

\* a baby with rows has been deleted while another baby keeps its own
C21_Witness ==
    /\ last.kind = "delete_baby"
    /\ last.status = 204
    /\ last.baby_id = 1
    /\ Len(reports) = 2
    /\ reports[1] = NoRow
    /\ reports[2] # NoRow
    /\ feedings # {}
    /\ diapers # {}
    /\ chat_conversations # {}
    /\ babies # {}


\* C30: reading or deleting report report_id under /analysis/{baby_id}/history
\* succeeds only when the stored report belongs to baby_id; otherwise the
\* answer is 404 and the table is left as it was; a successful delete removes
\* that report and no other.
C30_ReportScopedToBaby ==
    [][(last.status = 0 /\ last'.kind \in {"get_report", "delete_report"}) =>
         LET id == last'.report_id
             owned == /\ id \in 1..Len(reports)
                      /\ reports[id] # NoRow
                      /\ reports[id].baby_id = last'.baby_id
         IN  IF ~owned
             THEN last'.status = 404 /\ reports' = reports
             ELSE IF last'.kind = "get_report"
             THEN last'.status = 200 /\ reports' = reports
             ELSE /\ last'.status = 204
                  /\ reports' = [reports EXCEPT ![id] = NoRow]]_vars

\* a delete through another baby's path, refused, the report still stored
C30_Witness ==
    /\ last.kind = "delete_report"
    /\ last.status = 404
    /\ last.report_id \in 1..Len(reports)
    /\ reports[last.report_id] # NoRow
    /\ reports[last.report_id].baby_id # last.baby_id
    /\ \E b \in babies : b.id = last.baby_id


\* C22: the citation list of a call has one {source, score} entry per excerpt
\* of the prompt's reference block, in the same order, taken from the
\* retrieved passages; it is empty when the prompt carries a no-context text;
\* it is the same whatever the reasoning service answers.
C22_SourcesMatchExcerpts ==
    (analysis.caller = "direct" /\ analysis.prompt.built) =>
        LET parts == analysis.prompt.reference.parts
            sources == analysis.sources
        IN  /\ Len(sources) = Len(parts)
            /\ \A i \in 1..Len(parts) :
                 /\ sources[i].source = parts[i].source
                 /\ sources[i].source = analysis.nodes[i].file_name
                 /\ sources[i].score = analysis.nodes[i].score
                 /\ parts[i].score = IF sources[i].score = NoScore THEN <<>>
                                     ELSE <<sources[i].score \div 1000,
                                            sources[i].score % 1000>>
            /\ analysis.prompt.reference.text # "" => sources = <<>>
            /\ analysis.retrieval_raised => sources = <<>>

C22_Witness ==
    /\ analysis.caller = "direct"
    /\ analysis.prompt.built
    /\ Len(analysis.prompt.reference.parts) = 2
    /\ Len(analysis.sources) = 2
    /\ analysis.sources[1].source # analysis.sources[2].source
    /\ analysis.llm = "api_error"


\* C23: a build that reaches the documents and finds none raises a
\* no-documents error without persisting anything: the index files are what
\* they were, so that a load_index that follows fails with not-found when
\* there was no index and returns the previous index when there was one (the
\* failed build being then a forced rebuild).
C23_EmptyBuildLeavesIndex ==
    [][\A t \in Threads :
         /\ (calls[t].pc = "build" /\ calls'[t].pc # "build" /\ ~docs_present
             /\ (calls[t].force \/ ~index_files)) =>
              /\ calls'[t].pc \in {"done", "raised"}
              /\ calls'[t].result \in {"ValueError", "FileNotFoundError"}
              /\ ~calls'[t].wrote
              /\ index_files' = index_files
              /\ docs_present' = docs_present
         /\ (~docs_present /\ calls[t].fn = "load_index" /\ calls[t].pc = "load"
             /\ calls'[t].pc = "done"
             /\ \E u \in Threads : /\ calls[u].fn = "build_index"
                                   /\ calls[u].pc = "done"
                                   /\ calls[u].docs_read) =>
              /\ index_files' = index_files
              /\ calls'[t].result =
                   IF index_files THEN "Index" ELSE "FileNotFoundError"]_vars

\* a forced rebuild has failed on an existing index, which a load then returns
C23_Witness ==
    /\ ~docs_present
    /\ index_files
    /\ \E t, u \in Threads :
         /\ calls[t].fn = "build_index"
         /\ calls[t].force
         /\ calls[t].pc = "done"
         /\ calls[t].result = "ValueError"
         /\ calls[u].fn = "load_index"
         /\ calls[u].pc = "done"
         /\ calls[u].result = "Index"


\* C24: within one call the output-format section of the prompt, the system
\* message, the token budget (1200 for a report, 400 for a conversation) and
\* the retrieval query (the raw question in it iff conversational) all follow
\* the one classification of the question; the temperature is 0.2 in both
\* modes.
C24_ModeConsistent ==
    (analysis.caller = "direct" /\ analysis.prompt.built) =>
        /\ analysis.temperature = <<2, 10>>
        /\ IF ExpectedReport(analysis.question)
           THEN /\ analysis.prompt.format = "report"
                /\ analysis.prompt.question = NoQuestion
                /\ analysis.system_msg = "produce a structured report"
                /\ analysis.max_tokens = 1200
                /\ analysis.query_question = NoQuestion
           ELSE /\ analysis.prompt.format = "conversational"
                /\ analysis.prompt.question = analysis.question
                /\ analysis.system_msg = "Answer in 2-4 short sentences"
                /\ analysis.max_tokens = 400
                /\ analysis.query_question = analysis.question

C24_Witness ==
    /\ analysis.caller = "direct"
    /\ analysis.question = SummaryQuestion
    /\ analysis.prompt.format = "conversational"
    /\ analysis.max_tokens = 400
    /\ analysis.query_question = SummaryQuestion
    /\ analysis.llm = "ok"


\* the sections of the assembled prompt, by heading
SectionNames == [i \in 1..Len(prompt_call.sections) |-> prompt_call.sections[i].section]
HasSection(name) == \E i \in 1..Len(prompt_call.sections) : SectionNames[i] = name
SectionOf(name) ==
    prompt_call.sections[CHOOSE i \in 1..Len(prompt_call.sections) : SectionNames[i] = name]

\* C25: for every age, the age bucket (unit and number) put into the
\* retrieval query is the one shown in the prompt's baby profile.
C25_QueryBucketIsPromptBucket ==
    prompt_call.built => prompt_call.age_query = SectionOf("## Baby profile").age_str

\* the headings in the order of the prompt; the weight section is the one
\* part the profile may be followed by before the window
SectionOrder ==
    <<"## Medical reference context", "## Baby profile", "## Weight measurements",
      "## Window", "## Parent notes", "## Feeding data", "## Instructions",
      "## Output format", "## Parent's question">>
Rank(name) == CHOOSE i \in 1..Len(SectionOrder) : SectionOrder[i] = name

\* the notes of the input that hold more than blanks
NonBlankNotes ==
    {<<"feeding", i>> : i \in {j \in 1..Len(prompt_call.feedings) :
          \E k \in 1..Len(prompt_call.feedings[j].notes) :
              prompt_call.feedings[j].notes[k] # " "}}
    \cup {<<"weight", i>> : i \in {j \in 1..Len(prompt_call.weights) :
          \E k \in 1..Len(prompt_call.weights[j].notes) :
              prompt_call.weights[j].notes[k] # " "}}

\* C26: the prompt's sections come in one fixed order (reference context,
\* profile with the expected-rate note, window with the partial flag and
\* the baseline comparison, parent notes, feeding data,
\* instructions, then the section of the mode) whatever the mode, the
\* partial flag and the optional parts; the parent notes section is there
\* iff some note is non-blank, and lists exactly the non-blank notes of
\* feedings and weights in ascending timestamp order.
C26_PromptOrder ==
    prompt_call.built =>
        LET n == Len(prompt_call.sections)
        IN  /\ \A i \in 1..(n - 1) : Rank(SectionNames[i]) < Rank(SectionNames[i + 1])
            /\ \A name \in {"## Medical reference context", "## Baby profile",
                            "## Window", "## Feeding data", "## Instructions"} :
                   HasSection(name)
            /\ SectionNames[1] = "## Medical reference context"
            /\ SectionOf("## Baby profile").norms_note
                   = _expected_feedings_per_hour(prompt_call.age_days)
            /\ SectionOf("## Window").is_partial = prompt_call.is_partial
            /\ SectionOf("## Window").baseline
                   = IF prompt_call.baseline_count = 0
                     THEN "No previous data to compare."
                     ELSE "(previous equivalent period)"
            /\ SectionNames[n] = IF ReportMode[prompt_call.question]
                                 THEN "## Output format" ELSE "## Parent's question"
            /\ SectionNames[n - 1] = "## Instructions"
            /\ SectionNames[n - 2] = "## Feeding data"
            /\ HasSection("## Parent notes") <=> NonBlankNotes # {}
            /\ HasSection("## Parent notes") =>
                   LET ev == SectionOf("## Parent notes").events
                   IN  /\ Len(ev) = Cardinality(NonBlankNotes)
                       /\ \A i \in 1..Len(ev) : ev[i].note # <<>>
                       /\ \A i \in 1..(Len(ev) - 1) : ev[i].ts <= ev[i + 1].ts
                       /\ \A i \in 1..Len(prompt_call.feedings) :
                              <<"feeding", i>> \in NonBlankNotes =>
                                  \E k \in 1..Len(ev) :
                                      /\ ev[k].kind = "feeding"
                                      /\ ev[k].ts = prompt_call.feedings[i].fed_at
                       /\ \A i \in 1..Len(prompt_call.weights) :
                              <<"weight", i>> \in NonBlankNotes =>
                                  \E k \in 1..Len(ev) :
                                      /\ ev[k].kind = "weight"
                                      /\ ev[k].ts = prompt_call.weights[i].measured_at

\* a partial conversational call with a weight note between two feeding
\* notes given latest first
C26_Witness ==
    /\ prompt_call.built
    /\ prompt_call.is_partial
    /\ ~ReportMode[prompt_call.question]
    /\ Len(prompt_call.feedings) = 2
    /\ prompt_call.feedings[1].fed_at = 2000
    /\ prompt_call.feedings[2].fed_at = 1000
    /\ HasSection("## Parent notes")
    /\ Len(SectionOf("## Parent notes").events) = 3
    /\ SectionOf("## Parent notes").events[2].kind = "weight"
    /\ Len(prompt_call.sections) = 8

\* C27: for a non-empty list the summary's count is the number of feedings,
\* its total the sum of their volumes, its per-day averages count and total
\* over the number of distinct calendar dates holding a feeding (at least
\* one), and its detail every feeding exactly once in ascending time order;
\* for an empty list it is the fixed no-feedings text.
C27_FeedingSummary ==
    prompt_call.built =>
        LET fs == prompt_call.feedings
            sm == SectionOf("## Feeding data").summary
            dates == {d \in -1..1 : \E i \in 1..Len(fs) : DateOf(fs[i].fed_at) = d}
        IN  IF fs = <<>>
            THEN sm.text = "No feedings recorded for this period." /\ sm.lines = <<>>
            ELSE /\ sm.text = ""
                 /\ sm.count = Len(fs)
                 /\ sm.total_ml = SumSeq([i \in 1..Len(fs) |-> fs[i].quantity_ml])
                 /\ Cardinality(dates) >= 1
                 /\ sm.avg_feeds_per_day = <<Len(fs), Cardinality(dates)>>
                 /\ sm.avg_ml_per_day = <<sm.total_ml, Cardinality(dates)>>
                 /\ Len(sm.lines) = Len(fs)
                 /\ \A r \in FeedingRows :
                        Cardinality({i \in 1..Len(fs) : fs[i] = r})
                            = Cardinality({i \in 1..Len(sm.lines) : sm.lines[i] = r})
                 /\ \A i \in 1..(Len(sm.lines) - 1) :
                        sm.lines[i].fed_at <= sm.lines[i + 1].fed_at

\* two feedings two days apart, given latest first
C27_Witness ==
    /\ prompt_call.built
    /\ Len(prompt_call.feedings) = 2
    /\ prompt_call.feedings[1].fed_at = 2000
    /\ prompt_call.feedings[2].fed_at = -400
    /\ SectionOf("## Feeding data").summary.avg_feeds_per_day = <<2, 2>>
    /\ SectionOf("## Feeding data").summary.lines[1].fed_at = -400


\* C29: over a sequential series of get_rag_index calls the load is tried at
\* most once, and only while no index is cached and no attempt is flagged;
\* a cached index and a flagged attempt stay as they are; every call returns
\* the cached index or None, never an exception.
C29_LazyLoadOnce ==
    [][/\ calls'[1].loads <= 1
       /\ calls'[1].loads > calls[1].loads =>
              ~app_state.attempted /\ app_state.rag_index = "None"
       /\ app_state.attempted =>
              app_state'.attempted /\ app_state'.rag_index = app_state.rag_index
       /\ app_state.rag_index # "None" => app_state'.rag_index = app_state.rag_index
       /\ (calls'[1].fn = "get_rag_index" /\ calls'[1].pc = "done") =>
              /\ calls'[1].result = app_state'.rag_index
              /\ calls'[1].result \in {"Index", "None"}
              /\ calls'[1].served > 0 => app_state'.attempted
       /\ (calls[1].served > 0 /\ calls[1].pc = "idle") => calls'[1].pc # "dep_load"
      ]_vars

\* the third call of a series returns None without loading, the first having
\* failed and the index having been built since
C29_Witness ==
    /\ calls[1].fn = "get_rag_index"
    /\ calls[1].pc = "done"
    /\ calls[1].served = 2
    /\ calls[1].loads = 1
    /\ calls[1].result = "None"
    /\ index_files
    /\ calls[2].wrote

\* C28: a chat request answered past the window check has saved exactly one
\* report and carries its id when the analyzer's classifier puts its question
\* in report mode, and has saved none and carries no id otherwise.
C28_ChatSavesIffReport ==
    (last.kind = "chat" /\ Answered) =>
        IF ReportMode[last.question]
        THEN last.status = 200 /\ last.saves = 1 /\ last.report_id # 0
        ELSE last.saves = 0 /\ last.report_id = 0

\* the route's classifier and the analyzer's give one answer on every question
ClassifiersAgree ==
    \A q \in AnalyzerQuestions : _is_report_request_label(q) = ReportMode[q]

============================================================================
